---- MODULE Spec2Model ----
(***************************************************************************)
(* Model of the FS service archive manager of                              *)
(* core/hle/service/fs/archive.cpp: the archive type registry              *)
(* (id_code_map), the table of open archives (handle_map, next_handle),    *)
(* the archive-level maintenance operations and the File / Directory       *)
(* command dispatchers.                                                    *)
(*                                                                         *)
(* Backends and factories are external collaborators: what they answer is  *)
(* a nondeterministic input of the action that calls them, and the calls   *)
(* an operation makes on them are recorded, with the answers, in           *)
(* last.calls.  ResultCode values are kept as their fields; a command      *)
(* buffer word holds either such a value or a number [raw |-> n].          *)
(***************************************************************************)
EXTENDS Integers, Sequences, FiniteSets, TLC

\* ------------------------------------------------------------------ bounds
\* Number of values of ArchiveHandle (u64 in the program, 2^64 values): the
\* counter is incremented modulo this number.
HandleSpace == 3
\* Most archives open at the same time.
MaxOpen == 2
\* Most File resources / Directory resources alive at the same time.
MaxFiles == 1
MaxDirs == 1
\* Largest parameter word a request carries (priority, length, size, count).
MaxWord == 2

Handles == 0 .. (HandleSpace - 1)
Addrs == 1 .. MaxOpen
FileIds == 1 .. MaxFiles
DirIds == 1 .. MaxDirs
Words == 0 .. MaxWord
NoHandle == -1
NoId == "none"

\* ------------------------------------------------------------ result codes
ResultCode(description, module, summary, level) ==
    [description |-> description, module |-> module,
     summary |-> summary, level |-> level]

RESULT_SUCCESS == [raw |-> 0]

ERR_INVALID_HANDLE ==
    ResultCode("InvalidHandle", "FS", "InvalidArgument", "Permanent")

UnimplementedFunction(module) ==
    ResultCode("NotImplemented", module, "NotSupported", "Permanent")

ERR_ARCHIVE_NOT_FOUND == ResultCode("NotFound", "FS", "NotFound", "Permanent")
ERR_FILE_NOT_FOUND == ResultCode("FS_NotFound", "FS", "NotFound", "Status")
ERR_DIRECTORY_NOT_FOUND == ResultCode("NotFound", "FS", "NotFound", "Permanent")
ERR_NO_DATA_CANCELED == ResultCode("NoData", "FS", "Canceled", "Status")
ERR_NO_DATA_NOTHING_HAPPENED ==
    ResultCode("NoData", "FS", "NothingHappened", "Status")

\* Errors a factory's Open / Format or a backend's CreateFile may answer with.
BackendErrors ==
    { ResultCode("FS_NotFormatted", "FS", "InvalidState", "Status"),
      [raw |-> -1] }

\* ---------------------------------------------------------- archive types
IdCodes == {"SDMC", "SaveData", "ExtSaveData", "SharedExtSaveData",
            "SaveDataCheck", "SystemSaveData", "RomFS"}

\* Factories the callers of RegisterArchiveType (outside ArchiveInit) pass.
ExternalFactories == {"ArchiveFactory_RomFS"}
ExternalIdCodes == {"RomFS", "SaveData"}

\* Id codes the callers of OpenArchive and FormatArchive pass: one that
\* ArchiveInit registers when Initialize() succeeds, one that it always
\* registers, and one that only an outside caller registers.
RequestIdCodes == {"SDMC", "SaveData", "RomFS"}

\* Answers of the three Initialize() calls of ArchiveInit (SDMC, ExtSaveData,
\* SharedExtSaveData).
InitializeOutcomes == {<<TRUE, TRUE, TRUE>>, <<FALSE, FALSE, FALSE>>}

\* ------------------------------------------------------------------- state
VARIABLES
    id_code_map,   \* registered id code -> its factory
    handle_map,    \* open archive handle -> its backend instance
    next_handle,   \* the handle counter
    files,         \* live File resource -> [priority, closed]
    dirs,          \* live Directory resource -> [closed]
    cmd_buff,      \* the command buffer of the last dispatch, on return
    aborted,       \* the fatal assertion of RegisterArchiveType has failed
    first_closed,  \* history: the first handle a CloseArchive call closed
    last           \* the last operation: its arguments, result and calls
                   \* (and, of a dispatch, the command buffer on entry)

vars == <<id_code_map, handle_map, next_handle, files, dirs, cmd_buff,
          aborted, first_closed, last>>

EmptyMap == [x \in {} |-> 0]

\* A call on a collaborator and what it answered.
Call(kind, obj, fn, ans) ==
    [kind |-> kind, obj |-> obj, fn |-> fn, ans |-> ans]

\* The answer of a call whose result the caller drops.
Dropped == 0

Last(op, id_code, h1, h2, res, rc, ret, calls) ==
    [op |-> op, id_code |-> id_code, h1 |-> h1, h2 |-> h2, res |-> res,
     rc |-> rc, ret |-> ret, calls |-> calls]

NoBuffer == [i \in 0 .. 6 |-> [raw |-> 0]]

Init ==
    /\ id_code_map = EmptyMap
    /\ handle_map = EmptyMap
    /\ next_handle = 0
    /\ files = EmptyMap
    /\ dirs = EmptyMap
    /\ cmd_buff = NoBuffer
    /\ aborted = FALSE
    /\ first_closed = NoHandle
    /\ last = Last("none", NoId, NoHandle, NoHandle, 0, RESULT_SUCCESS,
                   NoHandle, <<>>)

\* ----------------------------------------------------------- the registry
\* A plausible slip: id_code_map[id_code] = factory, which overwrites.
EmplaceOverwrites(map, key, value) ==
    [k \in DOMAIN map \cup {key} |-> IF k = key THEN value ELSE map[k]]

\* map.emplace(key, value): inserts unless the key is present.
Emplace(map, key, value) ==
    IF key \in DOMAIN map
    THEN map
    ELSE [k \in DOMAIN map \cup {key} |-> IF k = key THEN value ELSE map[k]]

\* RegisterArchiveType, as a function of the registry: the registry after the
\* call and whether the assertion `inserted` held.
RegisterResult(map, factory, id_code) ==
    [map |-> Emplace(map, id_code, factory),
     inserted |-> id_code \notin DOMAIN map]

RegisterArchiveType(factory, id_code) ==
    /\ ~aborted
    /\ LET r == RegisterResult(id_code_map, factory, id_code) IN
        /\ id_code_map' = r.map
        /\ aborted' = ~r.inserted
        /\ last' = Last("RegisterArchiveType", id_code, NoHandle, NoHandle, 0,
                        RESULT_SUCCESS, NoHandle, <<>>)
    /\ UNCHANGED <<handle_map, next_handle, files, dirs, cmd_buff, first_closed>>

\* ------------------------------------------------------ the handle table
GetArchive(handle) ==
    IF handle \in DOMAIN handle_map THEN handle_map[handle] ELSE 0

\* A plausible slip: the collision-skip loop left out.
SkipUsedNoLoop(map, n) == n

\* while (handle_map.count(next_handle) != 0) ++next_handle;
RECURSIVE SkipUsed(_, _)
SkipUsed(map, n) ==
    IF n \in DOMAIN map THEN SkipUsed(map, (n + 1) % HandleSpace) ELSE n

FreeAddrs == Addrs \ {handle_map[h] : h \in DOMAIN handle_map}

OpenArchiveNotFound(id_code) ==
    /\ ~aborted
    /\ id_code \notin DOMAIN id_code_map
    /\ last' = Last("OpenArchive", id_code, NoHandle, NoHandle, 0,
                    ERR_ARCHIVE_NOT_FOUND, NoHandle, <<>>)
    /\ UNCHANGED <<id_code_map, handle_map, next_handle, files, dirs,
                   cmd_buff, aborted, first_closed>>

\* A plausible slip: the handle allocated before the factory's result is
\* looked at.
OpenArchiveFactoryErrorAllocates(id_code, error) ==
    /\ ~aborted
    /\ id_code \in DOMAIN id_code_map
    /\ Cardinality(DOMAIN handle_map) < MaxOpen
    /\ next_handle' = (SkipUsed(handle_map, next_handle) + 1) % HandleSpace
    /\ last' = Last("OpenArchive", id_code, NoHandle, NoHandle, 0, error,
                    NoHandle,
                    <<Call("factory", id_code_map[id_code], "Open", error)>>)
    /\ UNCHANGED <<id_code_map, handle_map, files, dirs, cmd_buff, aborted,
                   first_closed>>

OpenArchiveFactoryError(id_code, error) ==
    /\ ~aborted
    /\ id_code \in DOMAIN id_code_map
    /\ last' = Last("OpenArchive", id_code, NoHandle, NoHandle, 0, error,
                    NoHandle,
                    <<Call("factory", id_code_map[id_code], "Open", error)>>)
    /\ UNCHANGED <<id_code_map, handle_map, next_handle, files, dirs,
                   cmd_buff, aborted, first_closed>>

OpenArchiveSuccess(id_code, res) ==
    /\ ~aborted
    /\ id_code \in DOMAIN id_code_map
    /\ Cardinality(DOMAIN handle_map) < MaxOpen
    /\ res \in FreeAddrs
    /\ LET handle == SkipUsed(handle_map, next_handle) IN
        /\ handle_map' = Emplace(handle_map, handle, res)
        /\ next_handle' = (handle + 1) % HandleSpace
        /\ last' = Last("OpenArchive", id_code, NoHandle, NoHandle, 0,
                        RESULT_SUCCESS, handle,
                        <<Call("factory", id_code_map[id_code], "Open",
                               [backend |-> res])>>)
    /\ UNCHANGED <<id_code_map, files, dirs, cmd_buff, aborted, first_closed>>

OpenArchive ==
    \E id_code \in RequestIdCodes :
        \/ OpenArchiveNotFound(id_code)
        \/ \E error \in BackendErrors : OpenArchiveFactoryError(id_code, error)
        \/ \E res \in Addrs : OpenArchiveSuccess(id_code, res)

\* ------------------------------------ OpenArchive, one loop step at a time
\* The same OpenArchive with the collision-skip loop run one iteration per
\* step. While a call is in its loop, last.op is "OpenArchive:loop", last.res
\* is the backend the factory returned and last.start the value of next_handle
\* when the loop was entered; no other operation runs until the call returns.
InLoop == last.op = "OpenArchive:loop"

\* Backends on the heap when the table may fill up: one more than handle
\* values, the one the factory returns before the loop is entered.
LoopAddrs == 1 .. (HandleSpace + 1)

\* Lines 248-255: the factory is found and Open succeeds.
OpenArchiveBegin(id_code, res) ==
    /\ ~aborted
    /\ ~InLoop
    /\ id_code \in DOMAIN id_code_map
    /\ res \in LoopAddrs \ {handle_map[h] : h \in DOMAIN handle_map}
    /\ last' = Last("OpenArchive:loop", id_code, NoHandle, NoHandle, res,
                    RESULT_SUCCESS, NoHandle,
                    <<Call("factory", id_code_map[id_code], "Open",
                           [backend |-> res])>>)
               @@ [start |-> next_handle]
    /\ UNCHANGED <<id_code_map, handle_map, next_handle, files, dirs,
                   cmd_buff, aborted, first_closed>>

\* One iteration of while (handle_map.count(next_handle) != 0) ++next_handle;
OpenArchiveSkip ==
    /\ ~aborted
    /\ InLoop
    /\ next_handle \in DOMAIN handle_map
    /\ next_handle' = (next_handle + 1) % HandleSpace
    /\ UNCHANGED <<id_code_map, handle_map, files, dirs, cmd_buff, aborted,
                   first_closed, last>>

\* A plausible slip: return MakeResult(next_handle) without the increment.
OpenArchiveEmplaceKeepsCounter ==
    /\ ~aborted
    /\ InLoop
    /\ next_handle \notin DOMAIN handle_map
    /\ handle_map' = Emplace(handle_map, next_handle, last.res)
    /\ next_handle' = next_handle
    /\ last' = Last("OpenArchive", last.id_code, NoHandle, NoHandle, 0,
                    RESULT_SUCCESS, next_handle, last.calls)
               @@ [start |-> last.start]
    /\ UNCHANGED <<id_code_map, files, dirs, cmd_buff, aborted, first_closed>>

\* The loop exit: handle_map.emplace(next_handle, std::move(res));
\* return MakeResult<ArchiveHandle>(next_handle++);
OpenArchiveEmplace ==
    /\ ~aborted
    /\ InLoop
    /\ next_handle \notin DOMAIN handle_map
    /\ handle_map' = Emplace(handle_map, next_handle, last.res)
    /\ next_handle' = (next_handle + 1) % HandleSpace
    /\ last' = Last("OpenArchive", last.id_code, NoHandle, NoHandle, 0,
                    RESULT_SUCCESS, next_handle, last.calls)
               @@ [start |-> last.start]
    /\ UNCHANGED <<id_code_map, files, dirs, cmd_buff, aborted, first_closed>>

\* A plausible slip: handle_map.clear() in place of erase(handle).
EraseAll(map, handle) == IF handle \in DOMAIN map THEN EmptyMap ELSE map

\* handle_map.erase(handle)
Erase(map, handle) == [h \in DOMAIN map \ {handle} |-> map[h]]

\* A plausible slip: handle_map.count(handle) in place of erase(handle), so
\* that the entry stays.
CloseArchiveKeepsEntry(handle) ==
    /\ ~aborted
    /\ first_closed' = IF handle \in DOMAIN handle_map /\ first_closed = NoHandle
                       THEN handle ELSE first_closed
    /\ last' = Last("CloseArchive", NoId, handle, NoHandle, 0,
                    IF handle \in DOMAIN handle_map
                    THEN RESULT_SUCCESS ELSE ERR_INVALID_HANDLE,
                    NoHandle, <<>>)
    /\ UNCHANGED <<id_code_map, handle_map, next_handle, files, dirs,
                   cmd_buff, aborted>>

\* A plausible slip: closing an archive tears down the resources opened
\* from it along with its backend.
CloseArchiveDropsResources(handle) ==
    /\ ~aborted
    /\ handle_map' = Erase(handle_map, handle)
    /\ files' = IF handle \in DOMAIN handle_map THEN EmptyMap ELSE files
    /\ dirs' = IF handle \in DOMAIN handle_map THEN EmptyMap ELSE dirs
    /\ first_closed' = IF handle \in DOMAIN handle_map /\ first_closed = NoHandle
                       THEN handle ELSE first_closed
    /\ last' = Last("CloseArchive", NoId, handle, NoHandle, 0,
                    IF handle \in DOMAIN handle_map
                    THEN RESULT_SUCCESS ELSE ERR_INVALID_HANDLE,
                    NoHandle, <<>>)
    /\ UNCHANGED <<id_code_map, next_handle, cmd_buff, aborted>>

\* A plausible slip: the result of erase not looked at.
CloseArchiveAlwaysSucceeds(handle) ==
    /\ ~aborted
    /\ handle_map' = Erase(handle_map, handle)
    /\ first_closed' = IF handle \in DOMAIN handle_map /\ first_closed = NoHandle
                       THEN handle ELSE first_closed
    /\ last' = Last("CloseArchive", NoId, handle, NoHandle, 0, RESULT_SUCCESS,
                    NoHandle, <<>>)
    /\ UNCHANGED <<id_code_map, next_handle, files, dirs, cmd_buff, aborted>>

CloseArchive(handle) ==
    /\ ~aborted
    /\ handle_map' = Erase(handle_map, handle)
    /\ first_closed' = IF handle \in DOMAIN handle_map /\ first_closed = NoHandle
                       THEN handle ELSE first_closed
    /\ last' = Last("CloseArchive", NoId, handle, NoHandle, 0,
                    IF handle \in DOMAIN handle_map
                    THEN RESULT_SUCCESS ELSE ERR_INVALID_HANDLE,
                    NoHandle, <<>>)
    /\ UNCHANGED <<id_code_map, next_handle, files, dirs, cmd_buff, aborted>>

\* A plausible slip: only the handle table cleared.
ArchiveShutdownKeepsRegistry ==
    /\ ~aborted
    /\ handle_map' = EmptyMap
    /\ last' = Last("ArchiveShutdown", NoId, NoHandle, NoHandle, 0,
                    RESULT_SUCCESS, NoHandle, <<>>)
    /\ UNCHANGED <<id_code_map, next_handle, files, dirs, cmd_buff, aborted,
                   first_closed>>

\* ArchiveShutdown: handle_map.clear(); id_code_map.clear();
ArchiveShutdown ==
    /\ ~aborted
    /\ handle_map' = EmptyMap
    /\ id_code_map' = EmptyMap
    /\ last' = Last("ArchiveShutdown", NoId, NoHandle, NoHandle, 0,
                    RESULT_SUCCESS, NoHandle, <<>>)
    /\ UNCHANGED <<next_handle, files, dirs, cmd_buff, aborted, first_closed>>

\* The RegisterArchiveType calls of ArchiveInit, in order: a factory whose
\* Initialize() answers false is not registered.
InitRegistrations(sdmc_ok, extsavedata_ok, sharedextsavedata_ok) ==
    (IF sdmc_ok THEN << <<"ArchiveFactory_SDMC", "SDMC">> >> ELSE << >>)
    \o << <<"ArchiveFactory_SaveData", "SaveData">> >>
    \o (IF extsavedata_ok
        THEN << <<"ArchiveFactory_ExtSaveData(sdmc)", "ExtSaveData">> >>
        ELSE << >>)
    \o (IF sharedextsavedata_ok
        THEN << <<"ArchiveFactory_ExtSaveData(nand)", "SharedExtSaveData">> >>
        ELSE << >>)
    \o << <<"ArchiveFactory_SaveDataCheck", "SaveDataCheck">>,
          <<"ArchiveFactory_SystemSaveData", "SystemSaveData">> >>

\* Runs the registrations of regs in order; stops at the first one whose
\* assertion fails.
RECURSIVE RegisterAll(_, _)
RegisterAll(map, regs) ==
    IF regs = << >>
    THEN [map |-> map, inserted |-> TRUE]
    ELSE LET r == RegisterResult(map, Head(regs)[1], Head(regs)[2]) IN
         IF r.inserted THEN RegisterAll(r.map, Tail(regs)) ELSE r

ArchiveInit ==
    /\ ~aborted
    /\ next_handle' = 1
    /\ \E ok \in InitializeOutcomes :
        LET r == RegisterAll(id_code_map,
                             InitRegistrations(ok[1], ok[2], ok[3])) IN
        /\ id_code_map' = r.map
        /\ aborted' = ~r.inserted
    /\ last' = Last("ArchiveInit", NoId, NoHandle, NoHandle, 0,
                    RESULT_SUCCESS, NoHandle, <<>>)
    /\ UNCHANGED <<handle_map, files, dirs, cmd_buff, first_closed>>

\* FormatArchive(id_code, path)
FormatArchive(id_code) ==
    /\ ~aborted
    /\ IF id_code \notin DOMAIN id_code_map
       THEN last' = Last("FormatArchive", id_code, NoHandle, NoHandle, 0,
                         UnimplementedFunction("FS"), NoHandle, <<>>)
       ELSE \E result \in {RESULT_SUCCESS} \cup BackendErrors :
               last' = Last("FormatArchive", id_code, NoHandle, NoHandle, 0,
                            result, NoHandle,
                            <<Call("factory", id_code_map[id_code], "Format",
                                   result)>>)
    /\ UNCHANGED <<id_code_map, handle_map, next_handle, files, dirs,
                   cmd_buff, aborted, first_closed>>

\* ------------------------------------------------- save data provisioning
\* The MediaType values: the two the provisioning operations support and one
\* other value.
MediaTypes == {"NAND", "SDMC", "Other"}

\* ResultCode(raw): a result code built from its raw value.
ResultCodeRaw(raw) == [raw |-> raw]

\* A provisioning operation reports result rc after the FileUtil calls
\* `calls`; it touches no variable of the service.
Provisioned(op, media_type, rc, calls) ==
    /\ last' = Last(op, NoId, NoHandle, NoHandle, 0, rc, NoHandle, calls)
               @@ [media_type |-> media_type]
    /\ UNCHANGED <<id_code_map, handle_map, next_handle, files, dirs,
                   cmd_buff, aborted, first_closed>>

\* A plausible slip: every media type other than NAND taken for SDMC.
CreateExtSaveDataAnyMedia(media_type) ==
    /\ ~aborted
    /\ \E created \in BOOLEAN :
          Provisioned("CreateExtSaveData", media_type,
                      IF created THEN RESULT_SUCCESS ELSE ResultCodeRaw(-1),
                      <<Call("FileUtil",
                             IF media_type = "NAND" THEN "NAND" ELSE "SDMC",
                             "CreateFullPath", created)>>)

CreateExtSaveData(media_type) ==
    /\ ~aborted
    /\ IF media_type \in {"NAND", "SDMC"}
       THEN \E created \in BOOLEAN :
               Provisioned("CreateExtSaveData", media_type,
                           IF created THEN RESULT_SUCCESS
                           ELSE ResultCodeRaw(-1),
                           <<Call("FileUtil", media_type, "CreateFullPath",
                                  created)>>)
       ELSE Provisioned("CreateExtSaveData", media_type, ResultCodeRaw(-1),
                        <<>>)

DeleteExtSaveData(media_type) ==
    /\ ~aborted
    /\ IF media_type \in {"NAND", "SDMC"}
       THEN \E deleted \in BOOLEAN :
               Provisioned("DeleteExtSaveData", media_type,
                           IF deleted THEN RESULT_SUCCESS
                           ELSE ResultCodeRaw(-1),
                           <<Call("FileUtil", media_type,
                                  "DeleteDirRecursively", deleted)>>)
       ELSE Provisioned("DeleteExtSaveData", media_type, ResultCodeRaw(-1),
                        <<>>)

\* The system save data lives under the NAND directory.
DeleteSystemSaveData ==
    /\ ~aborted
    /\ \E deleted \in BOOLEAN :
          Provisioned("DeleteSystemSaveData", "NAND",
                      IF deleted THEN RESULT_SUCCESS ELSE ResultCodeRaw(-1),
                      <<Call("FileUtil", "NAND", "DeleteDirRecursively",
                             deleted)>>)

CreateSystemSaveData ==
    /\ ~aborted
    /\ \E created \in BOOLEAN :
          Provisioned("CreateSystemSaveData", "NAND",
                      IF created THEN RESULT_SUCCESS ELSE ResultCodeRaw(-1),
                      <<Call("FileUtil", "NAND", "CreateFullPath", created)>>)

\* ------------------------------------------- archive-level maintenance
\* An operation that changes nothing but reports result rc after making the
\* backend calls `calls`.
Report(op, h1, h2, rc, calls) ==
    /\ last' = Last(op, NoId, h1, h2, 0, rc, NoHandle, calls)
    /\ UNCHANGED <<id_code_map, handle_map, next_handle, files, dirs,
                   cmd_buff, aborted, first_closed>>

DeleteFileFromArchive(archive_handle) ==
    /\ ~aborted
    /\ LET archive == GetArchive(archive_handle) IN
       IF archive = 0
       THEN Report("DeleteFileFromArchive", archive_handle, NoHandle,
                   ERR_INVALID_HANDLE, <<>>)
       ELSE \E deleted \in BOOLEAN :
               Report("DeleteFileFromArchive", archive_handle, NoHandle,
                      IF deleted THEN RESULT_SUCCESS ELSE ERR_NO_DATA_CANCELED,
                      <<Call("archive", archive, "DeleteFile", deleted)>>)

\* A plausible slip: the rename delegated to the source archive whatever the
\* destination archive is.
RenameBetweenArchivesDelegates(op, method, src_archive_handle, dest_archive_handle) ==
    /\ ~aborted
    /\ LET src_archive == GetArchive(src_archive_handle)
           dest_archive == GetArchive(dest_archive_handle) IN
       IF src_archive = 0 \/ dest_archive = 0
       THEN Report(op, src_archive_handle, dest_archive_handle,
                   ERR_INVALID_HANDLE, <<>>)
       ELSE \E renamed \in BOOLEAN :
               Report(op, src_archive_handle, dest_archive_handle,
                      IF renamed THEN RESULT_SUCCESS
                      ELSE ERR_NO_DATA_NOTHING_HAPPENED,
                      <<Call("archive", src_archive, method, renamed)>>)

\* A plausible slip: && in place of || in the null check of the two archives.
RenameBetweenArchivesBothNull(op, method, src_archive_handle, dest_archive_handle) ==
    /\ ~aborted
    /\ LET src_archive == GetArchive(src_archive_handle)
           dest_archive == GetArchive(dest_archive_handle) IN
       IF src_archive = 0 /\ dest_archive = 0
       THEN Report(op, src_archive_handle, dest_archive_handle,
                   ERR_INVALID_HANDLE, <<>>)
       ELSE IF src_archive = dest_archive
       THEN \E renamed \in BOOLEAN :
               Report(op, src_archive_handle, dest_archive_handle,
                      IF renamed THEN RESULT_SUCCESS
                      ELSE ERR_NO_DATA_NOTHING_HAPPENED,
                      <<Call("archive", src_archive, method, renamed)>>)
       ELSE Report(op, src_archive_handle, dest_archive_handle,
                   UnimplementedFunction("FS"), <<>>)

\* The two rename operations have the same body but for the backend method.
RenameBetweenArchives(op, method, src_archive_handle, dest_archive_handle) ==
    /\ ~aborted
    /\ LET src_archive == GetArchive(src_archive_handle)
           dest_archive == GetArchive(dest_archive_handle) IN
       IF src_archive = 0 \/ dest_archive = 0
       THEN Report(op, src_archive_handle, dest_archive_handle,
                   ERR_INVALID_HANDLE, <<>>)
       ELSE IF src_archive = dest_archive
       THEN \E renamed \in BOOLEAN :
               Report(op, src_archive_handle, dest_archive_handle,
                      IF renamed THEN RESULT_SUCCESS
                      ELSE ERR_NO_DATA_NOTHING_HAPPENED,
                      <<Call("archive", src_archive, method, renamed)>>)
       ELSE Report(op, src_archive_handle, dest_archive_handle,
                   UnimplementedFunction("FS"), <<>>)

RenameFileBetweenArchives(src_archive_handle, dest_archive_handle) ==
    RenameBetweenArchives("RenameFileBetweenArchives", "RenameFile",
                          src_archive_handle, dest_archive_handle)

\* A plausible slip: the backend's answer is dropped and success returned.
DeleteDirectoryFromArchiveIgnoresAnswer(archive_handle) ==
    /\ ~aborted
    /\ LET archive == GetArchive(archive_handle) IN
       IF archive = 0
       THEN Report("DeleteDirectoryFromArchive", archive_handle, NoHandle,
                   ERR_INVALID_HANDLE, <<>>)
       ELSE \E deleted \in BOOLEAN :
               Report("DeleteDirectoryFromArchive", archive_handle, NoHandle,
                      RESULT_SUCCESS,
                      <<Call("archive", archive, "DeleteDirectory",
                             deleted)>>)

DeleteDirectoryFromArchive(archive_handle) ==
    /\ ~aborted
    /\ LET archive == GetArchive(archive_handle) IN
       IF archive = 0
       THEN Report("DeleteDirectoryFromArchive", archive_handle, NoHandle,
                   ERR_INVALID_HANDLE, <<>>)
       ELSE \E deleted \in BOOLEAN :
               Report("DeleteDirectoryFromArchive", archive_handle, NoHandle,
                      IF deleted THEN RESULT_SUCCESS ELSE ERR_NO_DATA_CANCELED,
                      <<Call("archive", archive, "DeleteDirectory",
                             deleted)>>)

CreateFileInArchive(archive_handle) ==
    /\ ~aborted
    /\ LET archive == GetArchive(archive_handle) IN
       IF archive = 0
       THEN Report("CreateFileInArchive", archive_handle, NoHandle,
                   ERR_INVALID_HANDLE, <<>>)
       ELSE \E result \in {RESULT_SUCCESS} \cup BackendErrors :
               Report("CreateFileInArchive", archive_handle, NoHandle, result,
                      <<Call("archive", archive, "CreateFile", result)>>)

CreateDirectoryFromArchive(archive_handle) ==
    /\ ~aborted
    /\ LET archive == GetArchive(archive_handle) IN
       IF archive = 0
       THEN Report("CreateDirectoryFromArchive", archive_handle, NoHandle,
                   ERR_INVALID_HANDLE, <<>>)
       ELSE \E created \in BOOLEAN :
               Report("CreateDirectoryFromArchive", archive_handle, NoHandle,
                      IF created THEN RESULT_SUCCESS ELSE ERR_NO_DATA_CANCELED,
                      <<Call("archive", archive, "CreateDirectory",
                             created)>>)

RenameDirectoryBetweenArchives(src_archive_handle, dest_archive_handle) ==
    RenameBetweenArchives("RenameDirectoryBetweenArchives", "RenameDirectory",
                          src_archive_handle, dest_archive_handle)

\* A plausible slip: priority left out of the initialiser list of File::File.
NewFileUninitialised == [priority |-> 1, closed |-> FALSE]

\* File::File: priority(0), the backend moved in (open).
NewFile == [priority |-> 0, closed |-> FALSE]

OpenFileFromArchive(archive_handle) ==
    /\ ~aborted
    /\ LET archive == GetArchive(archive_handle) IN
       IF archive = 0
       THEN Report("OpenFileFromArchive", archive_handle, NoHandle,
                   ERR_INVALID_HANDLE, <<>>)
       ELSE \/ Report("OpenFileFromArchive", archive_handle, NoHandle,
                      ERR_FILE_NOT_FOUND,
                      <<Call("archive", archive, "OpenFile", 0)>>)
            \/ \E file \in FileIds \ DOMAIN files :
                /\ files' = [f \in DOMAIN files \cup {file} |->
                                IF f = file THEN NewFile ELSE files[f]]
                /\ last' = Last("OpenFileFromArchive", NoId, archive_handle,
                                NoHandle, file, RESULT_SUCCESS, NoHandle,
                                <<Call("archive", archive, "OpenFile", file)>>)
                /\ UNCHANGED <<id_code_map, handle_map, next_handle, dirs,
                               cmd_buff, aborted, first_closed>>

\* Directory::Directory: the backend moved in (open).
NewDirectory == [closed |-> FALSE]

OpenDirectoryFromArchive(archive_handle) ==
    /\ ~aborted
    /\ LET archive == GetArchive(archive_handle) IN
       IF archive = 0
       THEN Report("OpenDirectoryFromArchive", archive_handle, NoHandle,
                   ERR_INVALID_HANDLE, <<>>)
       ELSE \/ Report("OpenDirectoryFromArchive", archive_handle, NoHandle,
                      ERR_DIRECTORY_NOT_FOUND,
                      <<Call("archive", archive, "OpenDirectory", 0)>>)
            \/ \E directory \in DirIds \ DOMAIN dirs :
                /\ dirs' = [d \in DOMAIN dirs \cup {directory} |->
                               IF d = directory THEN NewDirectory ELSE dirs[d]]
                /\ last' = Last("OpenDirectoryFromArchive", NoId,
                                archive_handle, NoHandle, directory,
                                RESULT_SUCCESS, NoHandle,
                                <<Call("archive", archive, "OpenDirectory",
                                       directory)>>)
                /\ UNCHANGED <<id_code_map, handle_map, next_handle, files,
                               cmd_buff, aborted, first_closed>>

\* ------------------------------------------------- command dispatchers
FileCommand ==
    [Dummy1 |-> 65734, Control |-> 67174596, OpenSubFile |-> 134283520,
     Read |-> 134348994, Write |-> 134414594, GetSize |-> 134479872,
     SetSize |-> 134545536, GetAttributes |-> 134610944,
     SetAttributes |-> 134676544, Close |-> 134742016, Flush |-> 134807552,
     SetPriority |-> 134873152, GetPriority |-> 134938624,
     OpenLinkFile |-> 135004160]

DirectoryCommand ==
    [Dummy1 |-> 65734, Control |-> 67174596, Read |-> 134283330,
     Close |-> 134348800]

\* An opcode that neither enumeration has.
OtherCommand == 0

\* A command buffer word; u32 is WordSpace values wide and a u64 is two words.
WordSpace == MaxWord + 1
W(n) == [raw |-> n]

\* The command buffer a caller hands in: the opcode and three parameter words.
Request(cmd, w1, w2, w3) ==
    [i \in 0 .. 6 |->
        W(CASE i = 0 -> cmd [] i = 1 -> w1 [] i = 2 -> w2 [] i = 3 -> w3
            [] OTHER -> 0)]

FileCommandValues == {FileCommand[n] : n \in DOMAIN FileCommand}
DirectoryCommandValues == {DirectoryCommand[n] : n \in DOMAIN DirectoryCommand}

FileRequests ==
    {Request(cmd, 0, 0, 0) : cmd \in FileCommandValues \cup {OtherCommand}}
    \cup {Request(cmd, 0, 0, length) :
            cmd \in {FileCommand.Read, FileCommand.Write}, length \in Words}
    \cup {Request(cmd, w1, 0, 0) :
            cmd \in {FileCommand.SetSize, FileCommand.SetPriority},
            w1 \in Words}

DirectoryRequests ==
    {Request(cmd, count, 0, 0) :
        cmd \in DirectoryCommandValues \cup {OtherCommand}, count \in Words}

\* Values of Kernel::g_handle_table.Create(this).ValueOr(INVALID_HANDLE).
INVALID_HANDLE == 0
KernelHandles == {INVALID_HANDLE, 1}

\* What one dispatch leaves behind: the command buffer, the resource's fields,
\* the returned result and the backend calls made.
FileOutcome(buff, priority, closed, rc, calls) ==
    [buff |-> buff, priority |-> priority, closed |-> closed, rc |-> rc,
     calls |-> calls]

\* A plausible slip: the common exit returns without writing the status word.
FileDoneNoStatus(state, buff, calls) ==
    FileOutcome(buff, state.priority, state.closed, RESULT_SUCCESS, calls)

\* The common exit of the recognised cases of File::SyncRequest.
FileDone(state, buff, calls) ==
    FileOutcome([buff EXCEPT ![1] = RESULT_SUCCESS], state.priority,
                state.closed, RESULT_SUCCESS, calls)

\* A plausible slip: the default case falls through to the common exit.
FileUnknownCommandSucceeds(state, cmd_buff_in) ==
    FileOutcome([cmd_buff_in EXCEPT ![1] = RESULT_SUCCESS], state.priority,
                state.closed, RESULT_SUCCESS, <<>>)

\* A plausible slip: the default case puts the resource back in its initial
\* state.
FileUnknownCommandResetsPriority(state, cmd_buff_in) ==
    FileOutcome([cmd_buff_in EXCEPT ![1] = UnimplementedFunction("FS")],
                0, state.closed, UnimplementedFunction("FS"), <<>>)

\* The default case of File::SyncRequest.
FileUnknownCommand(state, cmd_buff_in) ==
    FileOutcome([cmd_buff_in EXCEPT ![1] = UnimplementedFunction("FS")],
                state.priority, state.closed, UnimplementedFunction("FS"),
                <<>>)

\* File::SyncRequest on resource self in state `state` with command buffer
\* cmd_buff_in: the set of outcomes, one per answer of the backend.
FileSyncRequestOutcomes(self, state, cmd_buff_in) ==
    LET cmd == cmd_buff_in[0].raw IN
    CASE cmd = FileCommand.Read ->
            {FileDone(state, [cmd_buff_in EXCEPT ![2] = W(n % WordSpace)],
                      <<Call("file", self, "Read", n)>>)
                : n \in 0 .. cmd_buff_in[3].raw}
      [] cmd = FileCommand.Write ->
            {FileDone(state, [cmd_buff_in EXCEPT ![2] = W(n % WordSpace)],
                      <<Call("file", self, "Write", n)>>)
                : n \in 0 .. cmd_buff_in[3].raw}
      [] cmd = FileCommand.GetSize ->
            {FileDone(state,
                      [cmd_buff_in EXCEPT ![2] = W(size % WordSpace),
                                          ![3] = W(size \div WordSpace)],
                      <<Call("file", self, "GetSize", size)>>)
                : size \in 0 .. (WordSpace * WordSpace - 1)}
      [] cmd = FileCommand.SetSize ->
            {FileDone(state, cmd_buff_in,
                      <<Call("file", self, "SetSize", Dropped)>>)}
      [] cmd = FileCommand.Close ->
            {FileDone([state EXCEPT !.closed = TRUE], cmd_buff_in,
                      <<Call("file", self, "Close", Dropped)>>)}
      [] cmd = FileCommand.Flush ->
            {FileDone(state, cmd_buff_in,
                      <<Call("file", self, "Flush", Dropped)>>)}
      [] cmd = FileCommand.OpenLinkFile ->
            {FileDone(state, [cmd_buff_in EXCEPT ![3] = W(link)], <<>>)
                : link \in KernelHandles}
      [] cmd = FileCommand.SetPriority ->
            {FileDone([state EXCEPT !.priority = cmd_buff_in[1].raw],
                      cmd_buff_in, <<>>)}
      [] cmd = FileCommand.GetPriority ->
            {FileDone(state, [cmd_buff_in EXCEPT ![2] = W(state.priority)],
                      <<>>)}
      [] OTHER -> {FileUnknownCommand(state, cmd_buff_in)}

FileSyncRequest(file) ==
    /\ ~aborted
    /\ file \in DOMAIN files
    /\ \E request \in FileRequests :
        \E o \in FileSyncRequestOutcomes(file, files[file], request) :
            /\ cmd_buff' = o.buff
            /\ files' = [files EXCEPT ![file] =
                            [priority |-> o.priority, closed |-> o.closed]]
            /\ last' = Last("File::SyncRequest", NoId, NoHandle, NoHandle,
                            file, o.rc, request[0].raw, o.calls)
                       @@ [req |-> request]
    /\ UNCHANGED <<id_code_map, handle_map, next_handle, dirs, aborted,
                   first_closed>>

DirectoryOutcome(buff, closed, rc, calls) ==
    [buff |-> buff, closed |-> closed, rc |-> rc, calls |-> calls]

\* A plausible slip: Read reports the requested count, not the count read.
DirectorySyncRequestOutcomesRequestedCount(self, state, cmd_buff_in) ==
    LET cmd == cmd_buff_in[0].raw IN
    CASE cmd = DirectoryCommand.Read ->
            {DirectoryOutcome([cmd_buff_in EXCEPT ![1] = RESULT_SUCCESS,
                                                  ![2] = cmd_buff_in[1]],
                              state.closed, RESULT_SUCCESS,
                              <<Call("directory", self, "Read", n)>>)
                : n \in 0 .. cmd_buff_in[1].raw}
      [] cmd = DirectoryCommand.Close ->
            {DirectoryOutcome([cmd_buff_in EXCEPT ![1] = RESULT_SUCCESS],
                              TRUE, RESULT_SUCCESS,
                              <<Call("directory", self, "Close", Dropped)>>)}
      [] OTHER ->
            {DirectoryOutcome(
                [cmd_buff_in EXCEPT ![1] = UnimplementedFunction("FS")],
                state.closed, RESULT_SUCCESS, <<>>)}

\* Directory::SyncRequest on resource self in state `state`.
DirectorySyncRequestOutcomes(self, state, cmd_buff_in) ==
    LET cmd == cmd_buff_in[0].raw IN
    CASE cmd = DirectoryCommand.Read ->
            {DirectoryOutcome([cmd_buff_in EXCEPT ![1] = RESULT_SUCCESS,
                                                  ![2] = W(n)],
                              state.closed, RESULT_SUCCESS,
                              <<Call("directory", self, "Read", n)>>)
                : n \in 0 .. cmd_buff_in[1].raw}
      [] cmd = DirectoryCommand.Close ->
            {DirectoryOutcome([cmd_buff_in EXCEPT ![1] = RESULT_SUCCESS],
                              TRUE, RESULT_SUCCESS,
                              <<Call("directory", self, "Close", Dropped)>>)}
      [] OTHER ->
            {DirectoryOutcome(
                [cmd_buff_in EXCEPT ![1] = UnimplementedFunction("FS")],
                state.closed, RESULT_SUCCESS, <<>>)}

DirectorySyncRequest(directory) ==
    /\ ~aborted
    /\ directory \in DOMAIN dirs
    /\ \E request \in DirectoryRequests :
        \E o \in DirectorySyncRequestOutcomes(directory, dirs[directory],
                                              request) :
            /\ cmd_buff' = o.buff
            /\ dirs' = [dirs EXCEPT ![directory] = [closed |-> o.closed]]
            /\ last' = Last("Directory::SyncRequest", NoId, NoHandle,
                            NoHandle, directory, o.rc, request[0].raw, o.calls)
                       @@ [req |-> request]
    /\ UNCHANGED <<id_code_map, handle_map, next_handle, files, aborted,
                   first_closed>>

\* ---------------------------------------------------------- specifications
\* The registry and the handle table.
Next ==
    \/ ArchiveInit
    \/ ArchiveShutdown
    \/ \E f \in ExternalFactories, c \in ExternalIdCodes :
          RegisterArchiveType(f, c)
    \/ OpenArchive
    \/ \E h \in Handles : CloseArchive(h)
    \/ \E c \in RequestIdCodes : FormatArchive(c)
    \/ \E m \in MediaTypes : CreateExtSaveData(m)
    \/ \E m \in MediaTypes : DeleteExtSaveData(m)
    \/ DeleteSystemSaveData
    \/ CreateSystemSaveData

Spec == Init /\ [][Next]_vars

\* The handle table and the operations on an open archive.
NextMaintenance ==
    \/ ArchiveInit
    \/ ArchiveShutdown
    \/ OpenArchive
    \/ \E h \in Handles : CloseArchive(h)
    \/ \E h \in Handles : DeleteFileFromArchive(h)
    \/ \E h1, h2 \in Handles : RenameFileBetweenArchives(h1, h2)
    \/ \E h \in Handles : DeleteDirectoryFromArchive(h)
    \/ \E h \in Handles : CreateFileInArchive(h)
    \/ \E h \in Handles : CreateDirectoryFromArchive(h)
    \/ \E h1, h2 \in Handles : RenameDirectoryBetweenArchives(h1, h2)
    \/ \E h \in Handles : OpenFileFromArchive(h)
    \/ \E h \in Handles : OpenDirectoryFromArchive(h)

SpecMaintenance == Init /\ [][NextMaintenance]_vars

\* The File and Directory resources and their dispatchers, from the state
\* that ArchiveInit and a first successful OpenArchive("SaveData") leave.
InitResource ==
    /\ \E ok \in InitializeOutcomes :
          id_code_map =
              RegisterAll(EmptyMap, InitRegistrations(ok[1], ok[2], ok[3])).map
    /\ handle_map = (1 :> 1)
    /\ next_handle = 2
    /\ files = EmptyMap
    /\ dirs = EmptyMap
    /\ cmd_buff = NoBuffer
    /\ aborted = FALSE
    /\ first_closed = NoHandle
    /\ last = Last("OpenArchive", "SaveData", NoHandle, NoHandle, 0,
                   RESULT_SUCCESS, 1,
                   <<Call("factory", "ArchiveFactory_SaveData", "Open",
                          [backend |-> 1])>>)

NextResource ==
    \/ \E h \in Handles : CloseArchive(h)
    \/ \E h \in Handles : OpenFileFromArchive(h)
    \/ \E h \in Handles : OpenDirectoryFromArchive(h)
    \/ \E f \in FileIds : FileSyncRequest(f)
    \/ \E d \in DirIds : DirectorySyncRequest(d)

SpecResource == InitResource /\ [][NextResource]_vars
\* The handle table with OpenArchive run one loop iteration per step. The
\* table may fill up here; the service runs on one thread, so a call that has
\* entered its loop takes its next step before anything else happens.
NextOpenLoop ==
    \/ ~InLoop /\ ArchiveInit
    \/ ~InLoop /\ \E c \in RequestIdCodes : OpenArchiveNotFound(c)
    \/ ~InLoop /\ \E c \in RequestIdCodes, error \in BackendErrors :
                      OpenArchiveFactoryError(c, error)
    \/ \E c \in RequestIdCodes, res \in LoopAddrs : OpenArchiveBegin(c, res)
    \/ OpenArchiveSkip
    \/ OpenArchiveEmplace
    \/ ~InLoop /\ \E h \in Handles : CloseArchive(h)

SpecOpenLoop ==
    /\ Init
    /\ [][NextOpenLoop]_vars
    /\ WF_vars(OpenArchiveSkip \/ OpenArchiveEmplace)

\* The resources next to the handle table: the dispatchers together with
\* further archives being opened and closed. The start is that of
\* InitResource with every Initialize() of ArchiveInit answering true; further
\* archives are opened until the handle counter wraps, each at the lowest
\* free backend address.
InitOwnership == InitResource /\ "SDMC" \in DOMAIN id_code_map

OpenOtherArchive ==
    /\ next_handle # 0
    /\ FreeAddrs # {}
    /\ OpenArchiveSuccess("SaveData",
                          CHOOSE a \in FreeAddrs : \A b \in FreeAddrs : a <= b)

NextOwnership ==
    \/ OpenOtherArchive
    \/ \E h \in Handles : CloseArchive(h)
    \/ \E h \in Handles : OpenFileFromArchive(h)
    \/ \E h \in Handles : OpenDirectoryFromArchive(h)
    \/ \E f \in FileIds : FileSyncRequest(f)
    \/ \E d \in DirIds : DirectorySyncRequest(d)

SpecOwnership == InitOwnership /\ [][NextOwnership]_vars

\* ------------------------------------------------------------------ claims
Succeeded(l) == l.rc = RESULT_SUCCESS

\* C1: a successful OpenArchive returns a handle that was not open when it
\* was called, adds that one entry to the handle table, leaves every entry
\* that was there as it was and gives the new entry a backend that no entry
\* already there has.
C1_OpenArchiveFresh ==
    [][ (last'.op = "OpenArchive" /\ Succeeded(last')) =>
          /\ last'.ret \in Handles
          /\ last'.ret \notin DOMAIN handle_map
          /\ DOMAIN handle_map' = DOMAIN handle_map \cup {last'.ret}
          /\ \A h \in DOMAIN handle_map :
                /\ handle_map'[h] = handle_map[h]
                /\ handle_map'[last'.ret] # handle_map[h] ]_vars

\* C1 witness: OpenArchive has just issued handle 2 again, after it was
\* closed, while handle 1 is still open.
C1_Witness ==
    /\ last.op = "OpenArchive" /\ Succeeded(last)
    /\ last.ret = 2
    /\ first_closed = 2
    /\ DOMAIN handle_map = {1, 2}

\* C3: CloseArchive(h) on an open handle h succeeds and removes the entry of
\* h only: every other open handle keeps its backend instance and the type
\* registry is unchanged.
C3_CloseRemovesOnlyThat ==
    [][ (last'.op = "CloseArchive" /\ last'.h1 \in DOMAIN handle_map) =>
          /\ Succeeded(last')
          /\ DOMAIN handle_map' = DOMAIN handle_map \ {last'.h1}
          /\ \A h \in DOMAIN handle_map' : handle_map'[h] = handle_map[h]
          /\ id_code_map' = id_code_map ]_vars

\* C3 witness: a CloseArchive succeeded and another archive is still open.
C3_Witness ==
    /\ last.op = "CloseArchive" /\ Succeeded(last)
    /\ last.h1 \notin DOMAIN handle_map
    /\ handle_map # EmptyMap

\* C4: CloseArchive on a handle that is not open (never issued, or closed
\* already) returns InvalidHandle/FS/InvalidArgument/Permanent and leaves the
\* handle table, the handle counter and the registry unchanged.
C4_CloseInvalidHandle ==
    [][ (last'.op = "CloseArchive" /\ last'.h1 \notin DOMAIN handle_map) =>
          /\ last'.rc = [description |-> "InvalidHandle", module |-> "FS",
                         summary |-> "InvalidArgument", level |-> "Permanent"]
          /\ handle_map' = handle_map
          /\ next_handle' = next_handle
          /\ id_code_map' = id_code_map ]_vars

\* C4 witness: CloseArchive has just failed on the handle that an earlier
\* CloseArchive closed, with another archive open.
C4_Witness ==
    /\ last.op = "CloseArchive"
    /\ last.rc = ERR_INVALID_HANDLE
    /\ last.h1 = first_closed
    /\ handle_map # EmptyMap

\* C5: OpenArchive with an id code that is not registered fails with NotFound
\* and calls no factory; with a registered id code whose factory's Open fails
\* it returns the factory's error; in both cases the handle table and the
\* handle counter are unchanged.
C5_OpenArchiveFailure ==
    [][ last'.op = "OpenArchive" =>
          /\ last'.id_code \notin DOMAIN id_code_map =>
                /\ last'.rc = ERR_ARCHIVE_NOT_FOUND
                /\ last'.calls = <<>>
          /\ last'.id_code \in DOMAIN id_code_map =>
                /\ Len(last'.calls) = 1
                /\ last'.calls[1].obj = id_code_map[last'.id_code]
                /\ last'.calls[1].ans \in BackendErrors =>
                      last'.rc = last'.calls[1].ans
          /\ ~Succeeded(last') =>
                /\ handle_map' = handle_map
                /\ next_handle' = next_handle ]_vars

\* C5 witness: a factory's Open has just failed while the counter stands after
\* an issued handle.
C5_Witness ==
    /\ last.op = "OpenArchive"
    /\ last.rc \in BackendErrors
    /\ Len(last.calls) = 1
    /\ handle_map # EmptyMap

\* C6: RegisterArchiveType with an id code that is registered fails its
\* assertion, and no step but ArchiveShutdown removes an id code from the
\* registry or changes the factory bound to it.
C6_RegistryKeysImmutable ==
    [][ /\ (last'.op = "RegisterArchiveType"
            /\ last'.id_code \in DOMAIN id_code_map) => aborted'
        /\ last'.op # "ArchiveShutdown" =>
              \A c \in DOMAIN id_code_map :
                  /\ c \in DOMAIN id_code_map'
                  /\ id_code_map'[c] = id_code_map[c] ]_vars

\* C6 witness: a second registration of SaveData, with another factory, has
\* failed the assertion.
C6_Witness ==
    /\ aborted
    /\ last.op = "RegisterArchiveType"
    /\ last.id_code = "SaveData"
    /\ id_code_map["SaveData"] = "ArchiveFactory_SaveData"

\* The operations that take an archive handle.
PerHandleOps ==
    {"CloseArchive", "OpenFileFromArchive", "DeleteFileFromArchive",
     "RenameFileBetweenArchives", "DeleteDirectoryFromArchive",
     "CreateFileInArchive", "CreateDirectoryFromArchive",
     "RenameDirectoryBetweenArchives", "OpenDirectoryFromArchive"}

RenameOps == {"RenameFileBetweenArchives", "RenameDirectoryBetweenArchives"}

\* C2, as stated: once CloseArchive(h) has succeeded, h resolves to no
\* archive and every later operation on h fails with InvalidHandle, whatever
\* happened since (h is the first handle that was closed).
C2_ClosedForever ==
    first_closed # NoHandle =>
        /\ GetArchive(first_closed) = 0
        /\ ( /\ last.op \in PerHandleOps
             /\ first_closed \in {last.h1, last.h2}
             /\ ~(last.op = "CloseArchive" /\ Succeeded(last)) )
           => last.rc = ERR_INVALID_HANDLE

\* C2, amended: CloseArchive(h), when it succeeds, leaves h out of the handle
\* table; a handle that is not in the table enters it only as the handle a
\* successful OpenArchive returns; and an operation given a handle that is
\* not in the table fails with InvalidHandle.
C2_ClosedUntilReissued ==
    [][ /\ (last'.op = "CloseArchive" /\ Succeeded(last')) =>
              last'.h1 \notin DOMAIN handle_map'
        /\ \A h \in Handles :
              (h \notin DOMAIN handle_map /\ h \in DOMAIN handle_map') =>
                  /\ last'.op = "OpenArchive"
                  /\ Succeeded(last')
                  /\ last'.ret = h
        /\ ( /\ last'.op \in PerHandleOps
             /\ \/ last'.h1 \notin DOMAIN handle_map
                \/ last'.op \in RenameOps /\ last'.h2 \notin DOMAIN handle_map )
           => /\ last'.rc = ERR_INVALID_HANDLE
              /\ last'.calls = <<>> ]_vars

\* C2 witness: an operation on the closed handle has just failed with
\* InvalidHandle while another archive is open.
C2_Witness ==
    /\ first_closed # NoHandle
    /\ first_closed \notin DOMAIN handle_map
    /\ last.op = "CreateFileInArchive"
    /\ last.h1 = first_closed
    /\ last.rc = ERR_INVALID_HANDLE
    /\ handle_map # EmptyMap

\* C7: a rename given two open handles answers Unimplemented and calls no
\* backend when the handles differ; when they are the same handle it calls the
\* rename of that handle's backend once and succeeds exactly when the backend
\* answers true, and returns NoData/NothingHappened/Status when it answers
\* false.
C7_RenameBetweenArchives ==
    [][ ( /\ last'.op \in RenameOps
          /\ last'.h1 \in DOMAIN handle_map
          /\ last'.h2 \in DOMAIN handle_map ) =>
          IF last'.h1 # last'.h2
          THEN /\ last'.rc = UnimplementedFunction("FS")
               /\ last'.calls = <<>>
          ELSE /\ Len(last'.calls) = 1
               /\ last'.calls[1].obj = handle_map[last'.h1]
               /\ last'.calls[1].fn =
                     (IF last'.op = "RenameFileBetweenArchives"
                      THEN "RenameFile" ELSE "RenameDirectory")
               /\ Succeeded(last') <=> last'.calls[1].ans
               /\ ~last'.calls[1].ans =>
                     last'.rc = [description |-> "NoData", module |-> "FS",
                                 summary |-> "NothingHappened",
                                 level |-> "Status"] ]_vars

\* C7 witness: a rename across two open archives has just been refused.
C7_Witness ==
    /\ last.op = "RenameDirectoryBetweenArchives"
    /\ last.h1 # last.h2
    /\ {last.h1, last.h2} \subseteq DOMAIN handle_map
    /\ last.rc = UnimplementedFunction("FS")

\* C8, as stated: a command dispatched to a File after its Close command
\* writes an error status and is not delegated to the backend.
C8_ClosedFileFails ==
    [][ ( /\ last'.op = "File::SyncRequest"
          /\ last'.res \in DOMAIN files
          /\ files[last'.res].closed ) =>
          /\ cmd_buff'[1] # RESULT_SUCCESS
          /\ last'.calls = <<>> ]_vars

\* C9, as stated: FormatArchive with an id code that is not registered
\* returns NotFound and calls no factory; with a registered id code it returns
\* what the factory's Format returns.
C9_FormatArchive ==
    [][ last'.op = "FormatArchive" =>
          IF last'.id_code \notin DOMAIN id_code_map
          THEN /\ last'.rc = ERR_ARCHIVE_NOT_FOUND
               /\ last'.calls = <<>>
          ELSE /\ Len(last'.calls) = 1
               /\ last'.calls[1].obj = id_code_map[last'.id_code]
               /\ last'.rc = last'.calls[1].ans ]_vars

AttributeCommands == {FileCommand.GetAttributes, FileCommand.SetAttributes}

\* C10, as stated: GetAttributes or SetAttributes dispatched to an open File
\* writes the success status, calls no backend and changes no resource.
C10_AttributesSucceed ==
    [][ ( /\ last'.op = "File::SyncRequest"
          /\ last'.ret \in AttributeCommands
          /\ ~files[last'.res].closed ) =>
          /\ cmd_buff'[1] = RESULT_SUCCESS
          /\ last'.calls = <<>>
          /\ files' = files
          /\ dirs' = dirs ]_vars

\* C10, amended: GetAttributes or SetAttributes dispatched to an open File
\* writes the Unimplemented error as the status and returns it, calls no
\* backend and changes no resource.
C10_AttributesUnimplemented ==
    [][ ( /\ last'.op = "File::SyncRequest"
          /\ last'.ret \in AttributeCommands
          /\ ~files[last'.res].closed ) =>
          /\ cmd_buff'[1] = UnimplementedFunction("FS")
          /\ last'.rc = UnimplementedFunction("FS")
          /\ last'.calls = <<>>
          /\ files' = files
          /\ dirs' = dirs ]_vars

\* C10 witness: SetAttributes has just been dispatched to an open File whose
\* priority had been set.
C10_Witness ==
    /\ last.op = "File::SyncRequest"
    /\ last.ret = FileCommand.SetAttributes
    /\ cmd_buff[0] = W(FileCommand.SetAttributes)
    /\ files[last.res] = [priority |-> MaxWord, closed |-> FALSE]

\* The opcodes File::SyncRequest has a case for.
FileRecognised ==
    {FileCommand.Read, FileCommand.Write, FileCommand.GetSize,
     FileCommand.SetSize, FileCommand.Close, FileCommand.Flush,
     FileCommand.OpenLinkFile, FileCommand.SetPriority,
     FileCommand.GetPriority}

\* C11: an opcode that File::SyncRequest has no case for writes Unimplemented
\* as the status and returns it, calls no backend, leaves every other word of
\* the command buffer as it came in and changes no File (its priority
\* included) and no Directory.
C11_FileUnknownOpcode ==
    [][ ( /\ last'.op = "File::SyncRequest"
          /\ last'.req[0].raw \notin FileRecognised ) =>
          /\ cmd_buff'[1] = UnimplementedFunction("FS")
          /\ last'.rc = UnimplementedFunction("FS")
          /\ last'.calls = <<>>
          /\ \A i \in (0 .. 6) \ {1} : cmd_buff'[i] = last'.req[i]
          /\ files' = files
          /\ dirs' = dirs
          /\ handle_map' = handle_map ]_vars

\* C11 witness: an opcode of neither enumeration has just been dispatched to
\* a File whose priority had been set.
C11_Witness ==
    /\ last.op = "File::SyncRequest"
    /\ last.req[0].raw = OtherCommand
    /\ cmd_buff[1] = UnimplementedFunction("FS")
    /\ files[last.res].priority = MaxWord

\* The opcodes Directory::SyncRequest has a case for.
DirectoryRecognised == {DirectoryCommand.Read, DirectoryCommand.Close}

\* C12, as stated: an opcode that Directory::SyncRequest has no case for
\* writes Unimplemented as the status, returns Unimplemented as the result of
\* the call and calls no backend.
C12_DirectoryUnknownOpcode ==
    [][ ( /\ last'.op = "Directory::SyncRequest"
          /\ last'.req[0].raw \notin DirectoryRecognised ) =>
          /\ cmd_buff'[1] = UnimplementedFunction("FS")
          /\ last'.rc = UnimplementedFunction("FS")
          /\ last'.calls = <<>> ]_vars

\* C13: the priority of a File is 0 when OpenFileFromArchive creates it; a
\* SetPriority dispatch makes it the value of the request; no other step
\* changes it; and a GetPriority dispatch answers with it.  So GetPriority
\* answers the value of the most recent SetPriority (0 if there was none),
\* whatever was dispatched in between.
C13_PriorityRoundTrip ==
    [][ \A f \in FileIds :
          /\ (f \notin DOMAIN files /\ f \in DOMAIN files') =>
                /\ last'.op = "OpenFileFromArchive"
                /\ files'[f].priority = 0
          /\ (f \in DOMAIN files /\ f \in DOMAIN files') =>
                IF /\ last'.op = "File::SyncRequest"
                   /\ last'.res = f
                   /\ last'.req[0].raw = FileCommand.SetPriority
                THEN files'[f].priority = last'.req[1].raw
                ELSE files'[f].priority = files[f].priority
          /\ ( /\ last'.op = "File::SyncRequest"
               /\ last'.res = f
               /\ last'.req[0].raw = FileCommand.GetPriority ) =>
                /\ cmd_buff'[2] = W(files[f].priority)
                /\ cmd_buff'[1] = RESULT_SUCCESS
                /\ last'.calls = <<>> ]_vars

\* C13 witness: GetPriority has just answered the priority that an earlier
\* SetPriority set, on a File that has been closed in between.
C13_Witness ==
    /\ last.op = "File::SyncRequest"
    /\ last.req[0].raw = FileCommand.GetPriority
    /\ cmd_buff[2] = W(MaxWord)
    /\ files[last.res] = [priority |-> MaxWord, closed |-> TRUE]

\* The maintenance operations on an open archive.
MaintenanceOps == PerHandleOps \ {"CloseArchive"}

\* The handles an operation was given.
GivenHandles(l) == IF l.op \in RenameOps THEN {l.h1, l.h2} ELSE {l.h1}

\* C14: a maintenance operation given a handle that is not open (for a
\* rename: either of its two handles) returns InvalidHandle, calls no backend
\* and creates no File or Directory.
C14_MaintenanceInvalidHandle ==
    [][ ( /\ last'.op \in MaintenanceOps
          /\ \E h \in GivenHandles(last') : GetArchive(h) = 0 ) =>
          /\ last'.rc = ERR_INVALID_HANDLE
          /\ last'.calls = <<>>
          /\ files' = files
          /\ dirs' = dirs ]_vars

\* C14 witness: a rename whose source handle is open and whose destination
\* handle is not has just failed with InvalidHandle.
C14_Witness ==
    /\ last.op = "RenameFileBetweenArchives"
    /\ last.h1 \in DOMAIN handle_map
    /\ last.h2 \notin DOMAIN handle_map
    /\ last.rc = ERR_INVALID_HANDLE

\* The delete and create operations that map a boolean backend answer, with
\* the backend method each one calls.
BooleanOps ==
    [DeleteFileFromArchive |-> "DeleteFile",
     DeleteDirectoryFromArchive |-> "DeleteDirectory",
     CreateDirectoryFromArchive |-> "CreateDirectory"]

\* C15: on an open handle, DeleteFileFromArchive, DeleteDirectoryFromArchive
\* and CreateDirectoryFromArchive call their backend method once on that
\* handle's backend and return success exactly when it answers true and
\* NoData/Canceled/Status exactly when it answers false; CreateFileInArchive
\* returns the ResultCode of the backend's CreateFile unchanged; none of the
\* four changes the handle table, the counter or the registry.
C15_DeleteCreateBackendOutcome ==
    [][ ( /\ last'.op \in DOMAIN BooleanOps \cup {"CreateFileInArchive"}
          /\ last'.h1 \in DOMAIN handle_map ) =>
          /\ Len(last'.calls) = 1
          /\ last'.calls[1].obj = handle_map[last'.h1]
          /\ IF last'.op = "CreateFileInArchive"
             THEN /\ last'.calls[1].fn = "CreateFile"
                  /\ last'.rc = last'.calls[1].ans
             ELSE /\ last'.calls[1].fn = BooleanOps[last'.op]
                  /\ last'.calls[1].ans \in BOOLEAN
                  /\ (last'.rc = RESULT_SUCCESS) <=> last'.calls[1].ans
                  /\ (last'.rc = ERR_NO_DATA_CANCELED) <=> ~last'.calls[1].ans
          /\ handle_map' = handle_map
          /\ id_code_map' = id_code_map
          /\ next_handle' = next_handle ]_vars

\* C15 witness: DeleteDirectoryFromArchive on an open handle has just returned
\* NoData/Canceled/Status because the backend answered false.
C15_Witness ==
    /\ last.op = "DeleteDirectoryFromArchive"
    /\ last.h1 \in DOMAIN handle_map
    /\ last.calls # <<>>
    /\ last.calls[1].ans = FALSE
    /\ last.rc = ERR_NO_DATA_CANCELED

\* The opcodes the dispatcher named by op has a case for.
Recognised(op) ==
    IF op = "File::SyncRequest" THEN FileRecognised ELSE DirectoryRecognised

\* C16: every File and Directory dispatch, whatever the opcode and whatever
\* the backend answers, leaves the status word cmd_buff[1] written: the
\* success sentinel when the dispatcher has a case for the opcode, and the
\* encoded error UnimplementedFunction(FS), which is not the success
\* sentinel, for every other opcode value.
C16_StatusAlwaysWritten ==
    [][ last'.op \in {"File::SyncRequest", "Directory::SyncRequest"} =>
          /\ last'.req[0].raw \in Recognised(last'.op) =>
                cmd_buff'[1] = RESULT_SUCCESS
          /\ last'.req[0].raw \notin Recognised(last'.op) =>
                /\ cmd_buff'[1] = UnimplementedFunction("FS")
                /\ cmd_buff'[1] # RESULT_SUCCESS ]_vars

\* C16 witness: a SetPriority dispatch whose first parameter word was not
\* zero has left the success sentinel in the status word.
C16_Witness ==
    /\ last.op = "File::SyncRequest"
    /\ last.req[0].raw = FileCommand.SetPriority
    /\ last.req[1].raw = MaxWord
    /\ cmd_buff[1] = RESULT_SUCCESS

\* C17: a File Read or Write whose backend transfers fewer bytes than the
\* requested length, and a Directory Read whose backend returns fewer entries
\* than the requested count, writes the success status and puts exactly the
\* backend's count in cmd_buff[2].
C17_ShortTransferCount ==
    [][ /\ ( /\ last'.op = "File::SyncRequest"
             /\ last'.req[0].raw \in {FileCommand.Read, FileCommand.Write}
             /\ last'.calls[1].ans < last'.req[3].raw ) =>
              /\ cmd_buff'[1] = RESULT_SUCCESS
              /\ cmd_buff'[2] = W(last'.calls[1].ans)
        /\ ( /\ last'.op = "Directory::SyncRequest"
             /\ last'.req[0].raw = DirectoryCommand.Read
             /\ last'.calls[1].ans < last'.req[1].raw ) =>
              /\ cmd_buff'[1] = RESULT_SUCCESS
              /\ cmd_buff'[2] = W(last'.calls[1].ans) ]_vars

\* C17 witness: a Read of MaxWord bytes has just transferred one byte fewer
\* and reported it with the success status.
C17_Witness ==
    /\ last.op = "File::SyncRequest"
    /\ last.req[0].raw = FileCommand.Read
    /\ last.req[3].raw = MaxWord
    /\ last.calls[1].ans = MaxWord - 1
    /\ cmd_buff[2] = W(MaxWord - 1)
    /\ cmd_buff[1] = RESULT_SUCCESS

\* C18: a successful OpenArchive never returns the handle 0, after any
\* sequence of opens and closes that follows ArchiveInit, the wrap of the
\* handle counter included.
C18_NeverIssuesZero ==
    ( /\ last.op = "OpenArchive"
      /\ Succeeded(last)
      /\ "SaveData" \in DOMAIN id_code_map
      /\ id_code_map["SaveData"] = "ArchiveFactory_SaveData" ) =>
        last.ret # 0

\* C19: ArchiveShutdown leaves the handle table and the type registry empty,
\* so that every handle resolves to absent; while the registry is empty the
\* table stays empty and OpenArchive fails with NotFound for every id_code
\* without calling a factory; the registry leaves the empty state only by
\* RegisterArchiveType, called directly or by ArchiveInit.
C19_ShutdownEmptiesBoth ==
    [][ /\ last'.op = "ArchiveShutdown" =>
              /\ handle_map' = EmptyMap
              /\ id_code_map' = EmptyMap
              /\ \A h \in Handles : GetArchive(h)' = 0
        /\ (id_code_map = EmptyMap /\ last'.op = "OpenArchive") =>
              /\ last'.rc = ERR_ARCHIVE_NOT_FOUND
              /\ last'.calls = <<>>
              /\ handle_map' = handle_map
        /\ id_code_map' = EmptyMap => handle_map' = EmptyMap
        /\ (id_code_map = EmptyMap /\ id_code_map' # EmptyMap) =>
              last'.op \in {"RegisterArchiveType", "ArchiveInit"} ]_vars

\* C19 witness: after an archive was opened and closed and the service shut
\* down, OpenArchive of the type ArchiveInit always registers has just failed
\* with NotFound.
C19_Witness ==
    /\ last.op = "OpenArchive"
    /\ last.id_code = "SaveData"
    /\ last.rc = ERR_ARCHIVE_NOT_FOUND
    /\ id_code_map = EmptyMap
    /\ handle_map = EmptyMap
    /\ first_closed # NoHandle

\* The save data provisioning operations.
ProvisioningOps ==
    {"CreateExtSaveData", "DeleteExtSaveData", "CreateSystemSaveData",
     "DeleteSystemSaveData"}

\* C20: a provisioning operation leaves the handle table, the handle counter
\* and the type registry as they were, and its result depends on the media
\* type and the answer of FileUtil alone: success exactly when its one
\* FileUtil call answers true. CreateExtSaveData and DeleteExtSaveData with a
\* media type other than NAND or SDMC return an error and make no FileUtil
\* call, so that nothing is created or deleted.
C20_ProvisioningBypassesTable ==
    [][ last'.op \in ProvisioningOps =>
          /\ handle_map' = handle_map
          /\ next_handle' = next_handle
          /\ id_code_map' = id_code_map
          /\ Len(last'.calls) <= 1
          /\ Succeeded(last') <=>
                (last'.calls # <<>> /\ last'.calls[1].ans = TRUE)
          /\ last'.media_type \notin {"NAND", "SDMC"} =>
                /\ last'.op \in {"CreateExtSaveData", "DeleteExtSaveData"}
                /\ ~Succeeded(last')
                /\ last'.calls = <<>> ]_vars

\* C20 witness: with no archive type registered and no handle open,
\* DeleteExtSaveData with a media type other than NAND and SDMC has just
\* returned an error without calling FileUtil.
C20_Witness ==
    /\ last.op = "DeleteExtSaveData"
    /\ last.media_type = "Other"
    /\ last.rc = ResultCodeRaw(-1)
    /\ last.calls = <<>>
    /\ handle_map = EmptyMap
    /\ id_code_map = EmptyMap

\* The first value at or after n, in increment order, that is not a key of
\* map; HandleSpace when every value is a key.
FirstFree(map, n) ==
    LET free == {k \in 0 .. (HandleSpace - 1) :
                    (n + k) % HandleSpace \notin DOMAIN map} IN
    IF free = {} THEN HandleSpace
    ELSE (n + (CHOOSE k \in free : \A j \in free : k <= j)) % HandleSpace

\* C21: a successful OpenArchive returns the first value at or after the
\* counter it found, in increment order, that is not in the handle table,
\* inserts the backend there and leaves the counter at that value plus one;
\* the loop changes nothing but the counter; and a call that is in its loop
\* while some handle value is free returns.
C21_SkipLoop ==
    /\ [][ /\ (InLoop /\ last'.op = "OpenArchive") =>
                /\ last'.ret = FirstFree(handle_map, last.start)
                /\ last'.ret = SkipUsed(handle_map, last.start)
                /\ last'.ret \notin DOMAIN handle_map
                /\ handle_map' = Emplace(handle_map, last'.ret, last.res)
                /\ next_handle' = (last'.ret + 1) % HandleSpace
           /\ (InLoop /\ last' = last) => handle_map' = handle_map
       ]_vars
    /\ (InLoop /\ Cardinality(DOMAIN handle_map) < HandleSpace)
          ~> (last.op = "OpenArchive")

\* C21 witness: an OpenArchive has just returned after its loop skipped used
\* values and wrapped round, and more than one handle is open.
C21_Witness ==
    /\ last.op = "OpenArchive"
    /\ Succeeded(last)
    /\ last.ret < last.start
    /\ Cardinality(DOMAIN handle_map) > 1

\* The File opcodes whose case calls the backend.
FileBackendCommands ==
    {FileCommand.Read, FileCommand.Write, FileCommand.GetSize,
     FileCommand.SetSize, FileCommand.Close, FileCommand.Flush}

\* C22: CloseArchive and OpenArchive leave every File and Directory as it
\* is, priority included; and whatever the handle table holds, a dispatch of
\* an opcode the resource has a case for reports success, and calls the
\* resource's own backend where the case calls a backend.
C22_ResourceOwnsBackend ==
    [][ /\ last'.op \in {"CloseArchive", "OpenArchive"} =>
              /\ files' = files
              /\ dirs' = dirs
        /\ ( /\ last'.op = "File::SyncRequest"
             /\ last'.req[0].raw \in FileRecognised ) =>
              /\ Succeeded(last')
              /\ cmd_buff'[1] = RESULT_SUCCESS
              /\ last'.req[0].raw \in FileBackendCommands =>
                    /\ Len(last'.calls) = 1
                    /\ last'.calls[1].kind = "file"
                    /\ last'.calls[1].obj = last'.res
        /\ ( /\ last'.op = "Directory::SyncRequest"
             /\ last'.req[0].raw \in DirectoryRecognised ) =>
              /\ Succeeded(last')
              /\ cmd_buff'[1] = RESULT_SUCCESS
              /\ Len(last'.calls) = 1
              /\ last'.calls[1].kind = "directory"
              /\ last'.calls[1].obj = last'.res ]_vars

\* C22 witness: the archive the File was opened from has been closed, another
\* archive has been opened since and closed as well, and a Read of the File
\* has just reached its backend and reported success, the File still holding
\* the priority it was given.
C22_Witness ==
    /\ last.op = "File::SyncRequest"
    /\ last.req[0].raw = FileCommand.Read
    /\ last.calls[1].obj = last.res
    /\ Succeeded(last)
    /\ files[last.res].priority = MaxWord
    /\ first_closed = 1
    /\ next_handle # 2
    /\ handle_map = EmptyMap
====
